---- MODULE Spec2Model ----
(***************************************************************************)
(* jacl::small_vector<valueT, sizeN, allocT> (include/jacl/small_vector.hh) *)
(* as a state machine over two container objects and the allocator's heap. *)
(*                                                                         *)
(* Memory is a set of regions of element slots: region -c is the inline    *)
(* buffer of container c, region b >= 1 is heap block b.  A pointer is a   *)
(* pair (region, offset).  A slot holds an element value, or U when its    *)
(* content is indeterminate (never constructed, destroyed, clobbered by    *)
(* the capacity_ member of the union, or part of a released block).        *)
(* sizeof(value_type) >= sizeof(internal_size_type) is assumed, so that    *)
(* capacity_ overlays exactly slot 0 of inline_data_.                      *)
(*                                                                         *)
(* The header passes inline_data_ (uint8_t[]) and const_iterator values    *)
(* where a pointer is expected (shrink_to_fit, swap, erase, insert_impl);  *)
(* the model reads these as the pointer to the same address.               *)
(***************************************************************************)
EXTENDS Integers, Sequences, FiniteSets, TLC

\* ---------------------------------------------------------------- bounds
static_capacity == 2
MaxCap == 4
MaxCapPair == 3
MaxCapGrow == 7
MaxBlocks == 3
MaxVal == 2
MaxFault == 2
MaxSlack == 0
MaxSlackGrow == 1
MaxLen == 3
MaxIns == 2
SizeBits == 5
sizeof_value == 4

Vecs == {1, 2}
Other(c) == CHOOSE d \in Vecs : d # c
Values == 1..MaxVal
U == 0
DefaultValue == 1
Blocks == 1..MaxBlocks
Wrap == 2 ^ SizeBits

Min(x, y) == IF x <= y THEN x ELSE y
Max(x, y) == IF x >= y THEN x ELSE y
Fill(n, v) == [i \in 1..n |-> v]

VARIABLES vec, heap, trivial, traits, last
vars == <<vec, heap, trivial, traits, last>>

\* ------------------------------------------------------- storage state
Inl(c) == 0 - c

EmptyVec(al) ==
  [alive |-> TRUE, data_ |-> 0, size_ |-> 0, capacity_ |-> U,
   inline_data_ |-> Fill(static_capacity, U), alloc |-> al]

NewVec(c, al) == [EmptyVec(al) EXCEPT !.data_ = Inl(c)]

DeadVec(c) == [NewVec(c, 0) EXCEPT !.alive = FALSE]

FreeBlock == [live |-> FALSE, slots |-> <<>>, by |-> 0]

is_heap_allocated(M, c) == M.vec[c].data_ # Inl(c)

capacity(M, c) == IF is_heap_allocated(M, c) THEN M.vec[c].capacity_ ELSE static_capacity

max_size == (Wrap - 1) \div sizeof_value

internal_size_type(n) == n % Wrap

\* ------------------------------------------------------------- memory
Mem(M, r) == IF r < 0 THEN M.vec[0 - r].inline_data_ ELSE M.heap[r].slots

InBounds(M, r, o) == o >= 0 /\ o < Len(Mem(M, r))

Load(M, r, o) == IF InBounds(M, r, o) THEN Mem(M, r)[o + 1] ELSE U

\* A write through a pointer; one that misses the region is an out-of-bounds
\* write, recorded in ub.  A write to inline slot 0 overwrites capacity_.
Store(M, r, o, v) ==
  IF ~InBounds(M, r, o) THEN [M EXCEPT !.ub = TRUE]
  ELSE IF r < 0
    THEN [M EXCEPT !.vec[0 - r].inline_data_[o + 1] = v,
                   !.vec[0 - r].capacity_ = IF o = 0 THEN U ELSE @]
    ELSE [M EXCEPT !.heap[r].slots[o + 1] = v]

\* The end of an element's lifetime: the slot's content becomes indeterminate.
Kill(M, r, o) ==
  IF ~InBounds(M, r, o) THEN [M EXCEPT !.ub = TRUE]
  ELSE IF r < 0
    THEN [M EXCEPT !.vec[0 - r].inline_data_[o + 1] = U]
    ELSE [M EXCEPT !.heap[r].slots[o + 1] = U]

\* A write of the capacity_ member overwrites slot 0 of the inline buffer.
SetCapacity(M, c, n) ==
  [M EXCEPT !.vec[c].capacity_ = n, !.vec[c].inline_data_[1] = U,
            !.lost = @ \/ (~M.triv /\ M.vec[c].inline_data_[1] # U)]

\* ------------------------------------------------- the running operation
\* M is the state of one operation in progress: the objects and the heap,
\* the injected failure (af: the next allocate throws; cf = k > 0: the k-th
\* element construction from now throws), the raised exception, and what the
\* operation did (na/nd: allocator calls, ub: undefined behaviour, dfree:
\* deallocate of something that is no allocated block, lost: an element's
\* storage was released or reused while the element was alive, twice: a
\* destructor ran on a slot that holds no element, dinl: an inline buffer was
\* handed to the allocator, ret: return value).
\* An element constructor of a trivial value_type does not throw.
Machine(v, h, triv, flt, tr) ==
  [vec |-> v, heap |-> h, triv |-> triv,
   af |-> (flt = 0 - 1), cf |-> IF flt > 0 /\ ~triv THEN flt ELSE 0,
   slack |-> tr.slack, arena |-> tr.arena,
   exc |-> "none", ub |-> FALSE, dfree |-> FALSE, badn |-> FALSE,
   lost |-> FALSE, twice |-> FALSE, dinl |-> FALSE,
   na |-> 0, nd |-> 0, ret |-> 0]

Ok(M) == M.exc = "none"

Throw(M, e) == [M EXCEPT !.exc = e]

\* Statement sequencing.  Let names the value of a step; Then runs the rest
\* of a function unless the step threw; Try also gives the code that runs
\* when it threw (a defer_fail block, or the failure side of a defer block).
Let(x, rest(_)) == rest(x)

Then(M, rest(_)) == IF M.exc = "none" THEN rest(M) ELSE M

Try(M, rest(_), fail(_)) == IF M.exc = "none" THEN rest(M) ELSE fail(M)

check_max_size(M, sz) == IF sz > max_size THEN Throw(M, "length_error") ELSE M

FreeIds(M) == {b \in Blocks : ~M.heap[b].live}

\* allocate(n): ret is the pair <<pointer, count>>.  The allocator may hand
\* out more than requested (allocate_at_least); it serves blocks of up to
\* arena slots, and a larger request ends the exploration ("bound").
allocate(M, c, n) ==
  Then(check_max_size(M, n), LAMBDA M1 :
    IF M1.af THEN Throw([M1 EXCEPT !.af = FALSE], "bad_alloc")
    ELSE IF FreeIds(M1) = {} \/ n + M1.slack > M1.arena THEN Throw(M1, "bound")
    ELSE Let(CHOOSE x \in FreeIds(M1) : \A y \in FreeIds(M1) : x <= y, LAMBDA b :
           [M1 EXCEPT !.heap[b] = [live |-> TRUE, slots |-> Fill(n + M1.slack, U),
                                   by |-> M1.vec[c].alloc],
                      !.na = @ + 1, !.ret = <<b, n + M1.slack>>]))

\* A deallocate that hands every pointer to the allocator, the inline buffer
\* included.
deallocate_unchecked(M, c, p, n) ==
  IF p >= 1 /\ M.heap[p].live
    THEN [M EXCEPT !.heap[p] = FreeBlock, !.nd = @ + 1,
                   !.badn = @ \/ (n # Len(M.heap[p].slots)),
                   !.lost = @ \/ (~M.triv /\ \E i \in 1..Len(M.heap[p].slots) :
                                                 M.heap[p].slots[i] # U)]
    ELSE [M EXCEPT !.dfree = TRUE, !.ub = TRUE, !.nd = @ + 1, !.dinl = @ \/ (p < 0)]

\* deallocate(p, n): nothing for this container's own inline buffer.
deallocate(M, c, p, n) ==
  IF p = Inl(c) THEN M
  ELSE IF p >= 1 /\ M.heap[p].live
    THEN [M EXCEPT !.heap[p] = FreeBlock, !.nd = @ + 1,
                   !.badn = @ \/ (n # Len(M.heap[p].slots)),
                   !.lost = @ \/ (~M.triv /\ \E i \in 1..Len(M.heap[p].slots) :
                                                 M.heap[p].slots[i] # U)]
    ELSE [M EXCEPT !.dfree = TRUE, !.ub = TRUE, !.nd = @ + 1, !.dinl = @ \/ (p < 0)]

\* construct_at: the place where an element constructor can throw.
construct_at(M, r, o, v) ==
  IF ~Ok(M) THEN M
  ELSE IF M.cf = 1 THEN Throw([M EXCEPT !.cf = 0], "ctor")
  ELSE Store([M EXCEPT !.cf = IF @ > 1 THEN @ - 1 ELSE 0,
                       !.lost = @ \/ (~M.triv /\ Load(M, r, o) # U)], r, o, v)

\* destroy_at: nothing for a trivially destructible value_type.
destroy_at(M, r, o) ==
  IF M.triv THEN M
  ELSE [Kill(M, r, o) EXCEPT !.ub = @ \/ (Load(M, r, o) = U),
                             !.twice = @ \/ (Load(M, r, o) = U)]

RECURSIVE destroy_n(_, _, _, _)
destroy_n(M, r, o, n) ==
  IF n <= 0 \/ M.triv THEN M
  ELSE destroy_n(destroy_at(M, r, o), r, o + 1, n - 1)

\* Reading an element whose slot is indeterminate is undefined behaviour.
Read(M, r, o) == [M EXCEPT !.ub = @ \/ (Load(M, r, o) = U)]

\* memcpy / memmove of n slots: all sources are read, then all are written.
RECURSIVE StoreAll(_, _, _, _)
StoreAll(M, r, o, xs) ==
  IF xs = <<>> THEN M
  ELSE StoreAll(Store(M, r, o, Head(xs)), r, o + 1, Tail(xs))

memcpy(M, dr, do, sr, so, n) ==
  StoreAll([M EXCEPT !.ub = @ \/ (\E i \in 1..n : ~InBounds(M, sr, so + i - 1))],
           dr, do, [i \in 1..n |-> Load(M, sr, so + i - 1)])

memmove(M, dr, do, sr, so, n) == memcpy(M, dr, do, sr, so, n)

\* ------------------------------------------------ element range primitives
\* The element-wise loops run until a constructor throws; the defer_fail
\* block then destroys destination elements before the exception leaves.
RECURSIVE copy_loop(_, _, _, _, _, _, _)
copy_loop(M, dr, do, sr, so, i, n) ==
  IF i >= n THEN M
  ELSE Try(construct_at(Read(M, sr, so + i), dr, do + i, Load(M, sr, so + i)),
           LAMBDA M1 : copy_loop(M1, dr, do, sr, so, i + 1, n),
           LAMBDA M1 : destroy_n(M1, dr, do, i))

copy_data(M, dr, do, sr, so, n) ==
  IF ~Ok(M) THEN M
  ELSE IF M.triv THEN memcpy(M, dr, do, sr, so, n)
  ELSE copy_loop(M, dr, do, sr, so, 0, n)

RECURSIVE move_loop(_, _, _, _, _, _, _)
move_loop(M, dr, do, sr, so, i, n) ==
  IF i >= n THEN M
  ELSE Try(construct_at(Read(M, sr, so + i), dr, do + i, Load(M, sr, so + i)),
           LAMBDA M1 : move_loop(destroy_at(M1, sr, so + i), dr, do, sr, so, i + 1, n),
           LAMBDA M1 : destroy_n(M1, dr, do, i))

move_data(M, dr, do, sr, so, n) ==
  IF ~Ok(M) THEN M
  ELSE IF M.triv THEN memcpy(M, dr, do, sr, so, n)
  ELSE move_loop(M, dr, do, sr, so, 0, n)

\* dest and src of move_data_backwards are the ends of the two ranges; the
\* loop pre-decrements them, and its defer_fail destroys n slots from the
\* current dest.  The trivial path hands the same two pointers to memmove.
RECURSIVE move_backwards_loop(_, _, _, _, _, _, _)
move_backwards_loop(M, dr, do, sr, so, i, n) ==
  IF i <= 0 THEN M
  ELSE Try(construct_at(Read(M, sr, so - 1), dr, do - 1, Load(M, sr, so - 1)),
           LAMBDA M1 : move_backwards_loop(destroy_at(M1, sr, so - 1),
                                           dr, do - 1, sr, so - 1, i - 1, n),
           LAMBDA M1 : destroy_n(M1, dr, do - 1, n))

move_data_backwards(M, dr, do, sr, so, n) ==
  IF ~Ok(M) THEN M
  ELSE IF M.triv THEN memmove(M, dr, do, sr, so, n)
  ELSE move_backwards_loop(M, dr, do, sr, so, n, n)

\* Construction of the values xs at consecutive slots, with a defer_fail
\* that destroys the ones constructed (fill_data, the loop of assign_iter).
RECURSIVE construct_loop(_, _, _, _, _)
construct_loop(M, r, o, i, xs) ==
  IF i >= Len(xs) THEN M
  ELSE Try(construct_at(M, r, o + i, xs[i + 1]),
           LAMBDA M1 : construct_loop(M1, r, o, i + 1, xs),
           LAMBDA M1 : destroy_n(M1, r, o, i))

\* std::uninitialized_copy, and construct_at of the one value of emplace.
uninitialized_copy(M, r, o, xs) == IF ~Ok(M) THEN M ELSE construct_loop(M, r, o, 0, xs)

\* fill_data(dest, n, value...): hasv tells whether a value was given.
fill_data(M, r, o, n, hasv, v) ==
  IF ~Ok(M) THEN M
  ELSE IF ~hasv /\ M.triv THEN M
  ELSE construct_loop(M, r, o, 0, Fill(n, IF hasv THEN v ELSE DefaultValue))

\* ------------------------------------------------------ private helpers
SetSize(M, c, n) == [M EXCEPT !.vec[c].size_ = internal_size_type(n)]

SetData(M, c, p) == [M EXCEPT !.vec[c].data_ = p]

\* The callbacks handed to alloc_assign_internal and assign_internal, named
\* after what they do: each constructs elements at dest and leaves the new
\* size in ret.
\*   "move"   reserve, shrink_to_fit: move the elements to dest
\*   "fill"   count constructors, assign(sz, val): n values at dest
\*   "copy"   copy constructor, copy assignment: the elements of f.o
\*   "range"  assign_iter: the values of [first, last)
\*   "insert" insert_impl: the new values at dest + pos, then the elements
\*            before pos, then the elements from pos on
cb(M, c, f, dest) ==
  IF f.k = "move"
  THEN [move_data(M, dest, 0, M.vec[c].data_, 0, M.vec[c].size_)
          EXCEPT !.ret = M.vec[c].size_]
  ELSE IF f.k = "fill"
  THEN [fill_data(M, dest, 0, internal_size_type(f.n), f.hasv, f.v) EXCEPT !.ret = f.n]
  ELSE IF f.k = "copy"
  THEN [copy_data(M, dest, 0, M.vec[f.o].data_, 0, M.vec[f.o].size_)
          EXCEPT !.ret = M.vec[f.o].size_]
  ELSE IF f.k = "range"
  THEN [uninitialized_copy(M, dest, 0, f.xs) EXCEPT !.ret = Len(f.xs)]
  ELSE [move_data(move_data(uninitialized_copy(M, dest, f.pos, f.xs),
                            dest, 0, M.vec[c].data_, 0, f.pos),
                  dest, f.pos + f.n, M.vec[c].data_, f.pos, M.vec[c].size_ - f.pos)
          EXCEPT !.ret = f.new_size]

\* The deferred deallocate releases the old block on success and the new
\* block on failure.
alloc_assign_internal(M, c, req_cap, cur_cap, f) ==
  Then(allocate(M, c, internal_size_type(req_cap)), LAMBDA M1 :
    Try(cb(M1, c, f, M1.ret[1]),
        LAMBDA M2 :
          deallocate(SetCapacity(SetData(SetSize(M2, c, M2.ret), c, M1.ret[1]),
                                 c, internal_size_type(M1.ret[2])),
                     c, M2.vec[c].data_, internal_size_type(cur_cap)),
        LAMBDA M2 : deallocate(M2, c, M1.ret[1], internal_size_type(M1.ret[2]))))

assign_internal(M, c, sz, cur_cap, f) ==
  IF internal_size_type(sz) > internal_size_type(cur_cap)
  THEN alloc_assign_internal(M, c, internal_size_type(sz), internal_size_type(cur_cap), f)
  ELSE Then(cb(destroy_n(M, M.vec[c].data_, 0, M.vec[c].size_), c, f, M.vec[c].data_),
            LAMBDA M2 : SetSize(M2, c, M2.ret))

\* A clear that also gives a heap block back and returns to the inline buffer.
clear_to_inline(M, c) ==
  SetSize(SetData(deallocate(destroy_n(M, M.vec[c].data_, 0, M.vec[c].size_),
                             c, M.vec[c].data_, capacity(M, c)),
                  c, Inl(c)),
          c, 0)

clear(M, c) == SetSize(destroy_n(M, M.vec[c].data_, 0, M.vec[c].size_), c, 0)

\* move_internal(other) of container c; o is `other`.
\* A move_internal that drops the target's block without deallocating it.
move_internal_leak(M, c, o) ==
  Let(clear(M, c), LAMBDA M1 :
    Then(IF is_heap_allocated(M1, o)
         THEN SetCapacity(SetData(SetData(M1, o, Inl(o)), c, M1.vec[o].data_),
                          c, M1.vec[o].capacity_)
         ELSE Then(move_data(M1, M1.vec[c].data_, 0, M1.vec[o].data_, 0, M1.vec[o].size_),
                   LAMBDA Ma : SetData(Ma, o, Inl(o))),
         LAMBDA M2 : SetSize(SetSize(M2, o, 0), c, M2.vec[o].size_)))

move_internal(M, c, o) ==
  Let(clear(M, c), LAMBDA M1 :
    Then(IF is_heap_allocated(M1, o)
         THEN Let(deallocate(M1, c, M1.vec[c].data_, capacity(M1, c)), LAMBDA Ma :
                SetCapacity(SetData(SetData(Ma, o, Inl(o)), c, Ma.vec[o].data_),
                            c, Ma.vec[o].capacity_))
         ELSE Then(move_data(M1, M1.vec[c].data_, 0, M1.vec[o].data_, 0, M1.vec[o].size_),
                   LAMBDA Ma : SetData(Ma, o, Inl(o))),
         LAMBDA M2 : SetSize(SetSize(M2, o, 0), c, M2.vec[o].size_)))

\* A reserve that moves the elements to a new block whatever the capacity.
reserve_always(M, c, sz) ==
  alloc_assign_internal(M, c, Max(sz, M.vec[c].size_), capacity(M, c), [k |-> "move"])

reserve(M, c, sz) ==
  IF sz > capacity(M, c)
  THEN alloc_assign_internal(M, c, sz, capacity(M, c), [k |-> "move"])
  ELSE M

\* The argument of emplace_back is a value, or a reference (region rr, offset
\* ro) to an element; a reference is read when the new element is constructed,
\* and yields the indeterminate value g when its slot no longer holds one.
ArgValue(M, arg) ==
  IF arg.k = "val" THEN arg.v
  ELSE IF Load(M, arg.rr, arg.ro) = U THEN arg.g ELSE Load(M, arg.rr, arg.ro)

ArgRead(M, arg) == IF arg.k = "val" THEN M ELSE Read(M, arg.rr, arg.ro)

\* An emplace_back that grows by half the size, without the + 1.
emplace_back_grow_half(M, c, arg) ==
  Then(IF M.vec[c].size_ = capacity(M, c)
       THEN reserve(M, c, Min(internal_size_type(M.vec[c].size_ + (M.vec[c].size_ \div 2)),
                              internal_size_type(max_size)))
       ELSE M,
       LAMBDA M1 :
         Then(construct_at(ArgRead(M1, arg), M1.vec[c].data_, M1.vec[c].size_, ArgValue(M1, arg)),
              LAMBDA M2 : [SetSize(M2, c, M2.vec[c].size_ + 1)
                             EXCEPT !.ret = <<M2.vec[c].data_, M2.vec[c].size_>>]))

emplace_back(M, c, arg) ==
  Then(IF M.vec[c].size_ = capacity(M, c)
       THEN reserve(M, c, Min(internal_size_type(M.vec[c].size_ + (M.vec[c].size_ \div 2) + 1),
                              internal_size_type(max_size)))
       ELSE M,
       LAMBDA M1 :
         Then(construct_at(ArgRead(M1, arg), M1.vec[c].data_, M1.vec[c].size_, ArgValue(M1, arg)),
              LAMBDA M2 : [SetSize(M2, c, M2.vec[c].size_ + 1)
                             EXCEPT !.ret = <<M2.vec[c].data_, M2.vec[c].size_>>]))

pop_back(M, c) ==
  SetSize(destroy_at(M, M.vec[c].data_, M.vec[c].size_ - 1), c, M.vec[c].size_ - 1)

\* The capacity growth callbacks of emplace and of insert.
grow_cb(op, cur_size, min_size) ==
  IF op = "emplace"
  THEN Min(Max(cur_size + (cur_size \div 2) + 1, min_size), max_size)
  ELSE min_size

\* insert_impl(position, n, construct_cb, grow_cb): position is the offset
\* pos from begin(); construct_cb constructs the values xs at its argument;
\* op tells whose grow_cb is passed.
insert_impl(M, c, pos, n, xs, op) ==
  IF n = 0 THEN [M EXCEPT !.ret = <<M.vec[c].data_, pos>>]
  ELSE LET d == M.vec[c].data_
           sz == M.vec[c].size_
           new_size == internal_size_type(M.vec[c].size_ + n)
           cur_cap == internal_size_type(capacity(M, c))
       IN IF new_size <= cur_cap
          THEN [uninitialized_copy(move_data_backwards(M, d, sz + n, d, sz, sz - pos), d, pos, xs)
                  EXCEPT !.ret = <<d, pos>>]
          ELSE Then(alloc_assign_internal(M, c, internal_size_type(grow_cb(op, sz, new_size)), cur_cap,
                      [k |-> "insert", pos |-> pos, n |-> n, xs |-> xs, new_size |-> new_size]),
                    LAMBDA M1 : [M1 EXCEPT !.ret = <<M1.vec[c].data_, pos>>])

emplace(M, c, pos, v) == insert_impl(M, c, pos, 1, <<v>>, "emplace")

insert(M, c, pos, xs) ==
  insert_impl(M, c, pos, internal_size_type(Len(xs)), xs, "insert")

erase(M, c, first, lst) ==
  IF first = lst THEN [M EXCEPT !.ret = <<M.vec[c].data_, first>>]
  ELSE LET sz == internal_size_type(lst - first)
           d == M.vec[c].data_
       IN Then(move_data(destroy_n(M, d, first, sz), d, first, d, lst, sz),
               LAMBDA M2 : [SetSize(M2, c, M2.vec[c].size_ - sz) EXCEPT !.ret = <<d, first>>])

shrink_to_fit(M, c) ==
  IF M.vec[c].size_ < static_capacity /\ capacity(M, c) > static_capacity
  THEN Then(move_data(M, Inl(c), 0, M.vec[c].data_, 0, M.vec[c].size_),
            LAMBDA M1 : SetData(deallocate(M1, c, M1.vec[c].data_, capacity(M, c)), c, Inl(c)))
  ELSE IF M.vec[c].size_ # capacity(M, c)
  THEN alloc_assign_internal(M, c, M.vec[c].size_, capacity(M, c), [k |-> "move"])
  ELSE M

\* resize(sz) and resize(sz, value)
resize(M, c, sz, hasv, v) ==
  IF sz > M.vec[c].size_
  THEN Then(reserve(M, c, sz), LAMBDA M1 :
         Then(fill_data(M1, M1.vec[c].data_, M1.vec[c].size_,
                        internal_size_type(sz - M1.vec[c].size_), hasv, v),
              LAMBDA M2 : SetSize(M2, c, sz)))
  ELSE IF sz < M.vec[c].size_
  THEN SetSize(destroy_n(M, M.vec[c].data_, sz, M.vec[c].size_ - sz), c, sz)
  ELSE SetSize(M, c, sz)

\* assign(sz, val)
assign_fill(M, c, sz, val) ==
  assign_internal(M, c, sz, capacity(M, c), [k |-> "fill", n |-> sz, hasv |-> TRUE, v |-> val])

\* assign_iter(first, last, cur_cap) for the values xs of [first, last); ra
\* tells whether the iterators are random-access.
RECURSIVE emplace_back_each(_, _, _)
emplace_back_each(M, c, xs) ==
  IF xs = <<>> \/ ~Ok(M) THEN M
  ELSE emplace_back_each(emplace_back(M, c, [k |-> "val", v |-> Head(xs)]), c, Tail(xs))

assign_iter(M, c, xs, ra, cur_cap) ==
  IF ra
  THEN assign_internal(M, c, Len(xs), cur_cap, [k |-> "range", xs |-> xs])
  ELSE emplace_back_each(clear(M, c), c, xs)

\* assign(first, last) and assign(initializer_list)
assign(M, c, xs, ra) == assign_iter(M, c, xs, ra, capacity(M, c))

\* The branch of both assignment operators taken when the allocator
\* propagates and the two allocators differ.
take_allocator(M, c, o) ==
  [SetData(deallocate(clear(M, c), c, M.vec[c].data_, M.vec[c].capacity_), c, Inl(c))
     EXCEPT !.vec[c].alloc = M.vec[o].alloc]

\* operator=(const small_vector& other)
copy_assign(M, c, o, tr) ==
  IF c = o THEN M
  ELSE Let(IF tr.pocca /\ is_heap_allocated(M, o) /\ M.vec[c].alloc # M.vec[o].alloc
           THEN take_allocator(M, c, o) ELSE M,
           LAMBDA M1 :
             assign_internal(M1, c, M1.vec[o].size_, capacity(M1, c), [k |-> "copy", o |-> o]))

\* operator=(small_vector&& other)
move_assign(M, c, o, tr) ==
  move_internal(IF tr.pocma /\ M.vec[c].alloc # M.vec[o].alloc
                THEN take_allocator(M, c, o) ELSE M, c, o)

\* ------------------------------------------------------------------ swap
\* std::swap_ranges over the first n slots of l and r.
RECURSIVE swap_ranges(_, _, _, _, _)
swap_ranges(M, l, r, i, n) ==
  IF i >= n THEN M
  ELSE swap_ranges(Store(Store(M, M.vec[l].data_, i, Load(M, M.vec[r].data_, i)),
                         M.vec[r].data_, i, Load(M, M.vec[l].data_, i)),
                   l, r, i + 1, n)

swap_allocator(M, l, r, tr) ==
  IF tr.pocs
  THEN [M EXCEPT !.vec[l].alloc = M.vec[r].alloc, !.vec[r].alloc = M.vec[l].alloc]
  ELSE M

\* l.size_ <= r.size_
swap_inline_x_inline(M, l, r) ==
  Then(move_data(swap_ranges(M, l, r, 0, M.vec[l].size_),
                 M.vec[l].data_, M.vec[l].size_, M.vec[r].data_, M.vec[l].size_,
                 M.vec[r].size_ - M.vec[l].size_),
       LAMBDA M2 : SetSize(SetSize(M2, l, M.vec[r].size_), r, M.vec[l].size_))

\* l is heap-allocated, r is inline; other is the argument of swap, whose
\* size_ the lambda reads through its capture.
swap_heap_x_inline(M, l, r, other) ==
  Then(move_data(M, Inl(l), 0, M.vec[r].data_, 0, M.vec[r].size_), LAMBDA M1 :
    Let(SetSize(SetData(M1, l, Inl(l)), l, M1.vec[other].size_), LAMBDA M3 :
      SetCapacity(SetSize(SetData(M3, r, M.vec[l].data_), r, M.vec[l].size_),
                  r, M.vec[l].capacity_)))

swap(M, c, o, tr) ==
  IF c = o THEN M
  ELSE IF ~is_heap_allocated(M, c) /\ ~is_heap_allocated(M, o)
  THEN IF M.vec[c].size_ <= M.vec[o].size_
       THEN swap_inline_x_inline(M, c, o)
       ELSE swap_inline_x_inline(M, o, c)
  ELSE IF is_heap_allocated(M, c) /\ ~is_heap_allocated(M, o)
  THEN swap_allocator(swap_heap_x_inline(M, c, o, o), c, o, tr)
  ELSE IF ~is_heap_allocated(M, c) /\ is_heap_allocated(M, o)
  THEN swap_allocator(swap_heap_x_inline(M, o, c, o), c, o, tr)
  ELSE swap_allocator([M EXCEPT !.vec[c].data_ = M.vec[o].data_,
                                !.vec[o].data_ = M.vec[c].data_,
                                !.vec[c].size_ = M.vec[o].size_,
                                !.vec[o].size_ = M.vec[c].size_,
                                !.vec[c].capacity_ = M.vec[o].capacity_,
                                !.vec[o].capacity_ = M.vec[c].capacity_],
                      c, o, tr)

\* at(n): the element is returned as <<data_, n>>.
\* An at whose range check lets the index size() through.
at_off_by_one(M, c, n) ==
  IF n > M.vec[c].size_ THEN Throw(M, "out_of_range")
  ELSE [M EXCEPT !.ret = <<M.vec[c].data_, n>>]

at(M, c, n) ==
  IF n >= M.vec[c].size_ THEN Throw(M, "out_of_range")
  ELSE [M EXCEPT !.ret = <<M.vec[c].data_, n>>]

\* ------------------------------------------- construction, destruction
Fresh(M, c, al) == [M EXCEPT !.vec[c] = NewVec(c, al)]

\* small_vector(n, a) and small_vector(n, value, a)
ctor_count(M, c, n, hasv, v, al) ==
  assign_internal(Fresh(M, c, al), c, n, static_capacity,
                  [k |-> "fill", n |-> n, hasv |-> hasv, v |-> v])

\* small_vector(first, last, a) and small_vector(initializer_list)
ctor_range(M, c, xs, ra, al) == assign_iter(Fresh(M, c, al), c, xs, ra, static_capacity)

\* A copy constructor that shares the block of a heap-mode source.
ctor_copy_shallow(M, c, o) ==
  IF is_heap_allocated(M, o)
  THEN SetCapacity(SetSize(SetData(Fresh(M, c, M.vec[o].alloc), c, M.vec[o].data_),
                           c, M.vec[o].size_),
                   c, M.vec[o].capacity_)
  ELSE assign_internal(Fresh(M, c, M.vec[o].alloc), c, M.vec[o].size_, static_capacity,
                       [k |-> "copy", o |-> o])

\* small_vector(const small_vector& other)
ctor_copy(M, c, o) ==
  assign_internal(Fresh(M, c, M.vec[o].alloc), c, M.vec[o].size_, static_capacity,
                  [k |-> "copy", o |-> o])

\* small_vector(small_vector&& other)
ctor_move(M, c, o) == move_internal(Fresh(M, c, M.vec[o].alloc), c, o)

\* ~small_vector()
dtor(M, c) ==
  Let(deallocate(destroy_n(M, M.vec[c].data_, 0, M.vec[c].size_),
                 c, M.vec[c].data_, M.vec[c].capacity_),
      LAMBDA M1 :
        [M1 EXCEPT !.vec[c] = DeadVec(c),
                   !.lost = @ \/ (~M.triv /\ \E i \in 1..static_capacity :
                                                 M1.vec[c].inline_data_[i] # U)])

\* ---------------------------------------------------------------- actions
\* Storage that holds no element has indeterminate content: for a trivial
\* value_type the bytes beyond size_, the inactive inline buffer and blocks
\* no container points to; in inline mode the capacity_ member.
SettleVec(v, c) ==
  IF ~v.alive THEN DeadVec(c)
  ELSE IF v.data_ = Inl(c)
    THEN [v EXCEPT !.capacity_ = U,
                   !.inline_data_ = [i \in 1..static_capacity |->
                                        IF trivial /\ i > v.size_ THEN U ELSE @[i]]]
    ELSE [v EXCEPT !.inline_data_ = IF trivial THEN Fill(static_capacity, U) ELSE @]

SettleBlock(M, b) ==
  LET blk == M.heap[b]
      owners == {c \in Vecs : M.vec[c].alive /\ M.vec[c].data_ = b}
  IN IF ~blk.live \/ ~trivial THEN blk
     ELSE [blk EXCEPT !.slots = [i \in 1..Len(blk.slots) |->
                                   IF \A c \in owners : i > M.vec[c].size_ THEN U ELSE @[i]]]

\* Block numbers are names, not addresses: after every operation the blocks
\* are renumbered in the order: the block container 1 points to, the block
\* container 2 points to, the other allocated blocks, the free blocks.
Referenced(M, c) == {M.vec[c].data_} \cap Blocks

BlockRank(M, b) ==
  LET r1 == Referenced(M, 1)
      r2 == Referenced(M, 2) \ r1
      r3 == {x \in Blocks \ (r1 \cup r2) : M.heap[x].live}
      r4 == Blocks \ (r1 \cup r2 \cup r3)
      k12 == Cardinality(r1) + Cardinality(r2)
  IN IF b \in r1 THEN 1
     ELSE IF b \in r2 THEN k12
     ELSE IF b \in r3 THEN k12 + Cardinality({x \in r3 : x <= b})
     ELSE k12 + Cardinality(r3) + Cardinality({x \in r4 : x <= b})

RenamePtr(M, p) == IF p \in Blocks THEN BlockRank(M, p) ELSE p

Renumber(M) ==
  [M EXCEPT !.vec = [c \in Vecs |-> [M.vec[c] EXCEPT !.data_ = RenamePtr(M, @)]],
            !.heap = [k \in Blocks |-> M.heap[CHOOSE b \in Blocks : BlockRank(M, b) = k]]]

Settle(M) ==
  Renumber([M EXCEPT !.vec = [c \in Vecs |-> SettleVec(M.vec[c], c)],
                     !.heap = [b \in Blocks |-> SettleBlock(M, b)]])

NoRet == <<0, 0>>

\* What the caller sees of the operation it has just run: the call (op on
\* container c with other operand d and arguments i, j, xs), its outcome, the
\* allocator calls it made, the containers whose data_ it left alone (kept)
\* and its return value.
Rec(op, c, d, i, j, xs, M, ret) ==
  [op |-> op, c |-> c, d |-> d, i |-> i, j |-> j, xs |-> xs,
   exc |-> M.exc, na |-> M.na, nd |-> M.nd,
   ub |-> M.ub, dfree |-> M.dfree, badn |-> M.badn,
   lost |-> M.lost, twice |-> M.twice, dinl |-> M.dinl,
   kept |-> {x \in Vecs : M.vec[x].data_ = vec[x].data_},
   ret |-> IF Ok(M) THEN <<RenamePtr(M, ret[1]), ret[2]>> ELSE NoRet]

Idle == Rec("idle", 0, 0, 0, 0, <<>>, Machine(vec, heap, trivial, 0, traits), NoRet)

\* An operation starts when the caller is between two calls.
Running == last.op = "idle"

Start(flt) == Machine(vec, heap, trivial, flt, traits)

\* The end of an operation: an exception that leaves a noexcept function ends
\* the program; one that leaves a constructor leaves no object behind.
Finish(op, c, d, i, j, xs, M0, ret0, noexc, isCtor) ==
 \E M \in {M0} : \E ret \in {IF M.exc = "none" THEN ret0 ELSE NoRet} :
  /\ M.exc # "bound"
  /\ IF ~Ok(M) /\ noexc
     THEN /\ UNCHANGED <<vec, heap>>
          /\ last' = [Rec(op, c, d, i, j, xs, Start(0), NoRet) EXCEPT !.exc = "terminate"]
     ELSE LET R == IF ~Ok(M) /\ isCtor THEN [M EXCEPT !.vec[c] = DeadVec(c)] ELSE M
              S == Settle(R)
          IN /\ vec' = S.vec
             /\ heap' = S.heap
             /\ last' = Rec(op, c, d, i, j, xs, R, ret)
  /\ UNCHANGED <<trivial, traits>>

Faults == IF trivial THEN {0 - 1, 0} ELSE (0 - 1)..MaxFault
NoFault == {0}
CtorFaults == IF trivial THEN {0} ELSE 0..MaxFault
Seqs(n) == UNION {[1..k -> Values] : k \in 0..n}
Lists(n) == {xs \in Seqs(n) : xs = <<>> \/ xs[1] = 1}
\* The allocators handed to constructors: one value when all allocators of
\* the type are equal (is_always_equal), two different ones otherwise.
AllocIds == IF traits.always_equal THEN {1} ELSE {1, 2}
Live(c) == vec[c].alive

DefaultCtor(C) ==
  \E c \in C, al \in AllocIds :
    /\ Running /\ ~Live(c)
    /\ Finish("ctor_default", c, 0, 0, 0, <<>>, Fresh(Start(0), c, al), NoRet, TRUE, TRUE)

CountCtor(C) ==
  \E c \in C, al \in AllocIds, n \in 0..MaxLen, hasv \in BOOLEAN, v \in Values, f \in Faults :
    /\ Running /\ ~Live(c)
    /\ hasv \/ v = DefaultValue
    /\ Finish("ctor_count", c, 0, n, IF hasv THEN v ELSE 0, <<>>,
              ctor_count(Start(f), c, n, hasv, v, al), NoRet, hasv, TRUE)

RangeCtor(C) ==
  \E c \in C, al \in AllocIds, xs \in Lists(MaxLen), ra \in BOOLEAN, f \in Faults :
    /\ Running /\ ~Live(c)
    /\ Finish("ctor_range", c, 0, IF ra THEN 1 ELSE 0, 0, xs,
              ctor_range(Start(f), c, xs, ra, al), NoRet, TRUE, TRUE)

CopyCtor ==
  \E c \in Vecs, f \in Faults :
    /\ Running /\ ~Live(c) /\ Live(Other(c))
    /\ Finish("ctor_copy", c, Other(c), 0, 0, <<>>,
              ctor_copy(Start(f), c, Other(c)), NoRet, trivial, TRUE)

MoveCtor ==
  \E c \in Vecs, f \in CtorFaults :
    /\ Running /\ ~Live(c) /\ Live(Other(c))
    /\ Finish("ctor_move", c, Other(c), 0, 0, <<>>,
              ctor_move(Start(f), c, Other(c)), NoRet, TRUE, TRUE)

Dtor(C) ==
  \E c \in C :
    /\ Running /\ Live(c)
    /\ Finish("dtor", c, 0, 0, 0, <<>>, dtor(Start(0), c), NoRet, TRUE, FALSE)

\* push_back(x) forwards to emplace_back(x); x is a value that lives outside
\* the container.
ValueArgs == {[k |-> "val", v |-> x, rr |-> 0, ro |-> 0, g |-> x] : x \in Values}

EmplaceBack(C, F) ==
  \E c \in C, f \in F, arg \in ValueArgs :
    /\ Running /\ Live(c)
    /\ LET M == emplace_back(Start(f), c, arg)
       IN Finish("emplace_back", c, 0, 0 - 1, arg.v, <<>>, M, M.ret, FALSE, FALSE)

\* emplace_back() with no arguments: a value-initialised element.
EmplaceBackDefault(C) ==
  \E c \in C :
    /\ Running /\ Live(c)
    /\ LET M == emplace_back(Start(0), c, [k |-> "val", v |-> DefaultValue])
       IN Finish("emplace_back", c, 0, 0 - 1, DefaultValue, <<>>, M, M.ret, FALSE, FALSE)

\* push_back(v[o]): the argument is a reference to an initialised element of
\* the same container.
SelfArgs(c) ==
  {[k |-> "ref", v |-> Load(Start(0), vec[c].data_, o), rr |-> vec[c].data_, ro |-> o, g |-> y] :
     o \in {n \in 0..(vec[c].size_ - 1) : Load(Start(0), vec[c].data_, n) # U}, y \in Values}

PushBackSelf(C) ==
  \E c \in C, f \in Faults :
    \E arg \in SelfArgs(c) :
      /\ Running /\ Live(c)
      /\ LET M == emplace_back(Start(f), c, arg)
         IN Finish("emplace_back", c, 0, arg.ro, arg.v, <<>>, M, M.ret, FALSE, FALSE)

PopBack(C) ==
  \E c \in C :
    /\ Running /\ Live(c) /\ vec[c].size_ > 0
    /\ Finish("pop_back", c, 0, 0, 0, <<>>, pop_back(Start(0), c), NoRet, FALSE, FALSE)

Emplace(C) ==
  \E c \in C, f \in Faults, v \in Values :
    \E pos \in 0..vec[c].size_ :
      /\ Running /\ Live(c)
      /\ LET M == emplace(Start(f), c, pos, v)
         IN Finish("emplace", c, 0, pos, 0, <<v>>, M, M.ret, FALSE, FALSE)

Insert(C) ==
  \E c \in C, f \in Faults, xs \in Lists(MaxIns) :
    \E pos \in 0..vec[c].size_ :
      /\ Running /\ Live(c)
      /\ LET M == insert(Start(f), c, pos, xs)
         IN Finish("insert", c, 0, pos, 0, xs, M, M.ret, FALSE, FALSE)

Erase(C) ==
  \E c \in C, f \in CtorFaults :
    \E first \in 0..vec[c].size_ :
      \E lst \in first..vec[c].size_ :
        /\ Running /\ Live(c)
        /\ LET M == erase(Start(f), c, first, lst)
           IN Finish("erase", c, 0, first, lst, <<>>, M, M.ret, FALSE, FALSE)

Clear(C) ==
  \E c \in C :
    /\ Running /\ Live(c)
    /\ Finish("clear", c, 0, 0, 0, <<>>, clear(Start(0), c), NoRet, TRUE, FALSE)

Reserve(C, F) ==
  \E c \in C, f \in F, n \in 0..MaxCap :
    /\ Running /\ Live(c)
    /\ Finish("reserve", c, 0, n, 0, <<>>, reserve(Start(f), c, n), NoRet, FALSE, FALSE)

ShrinkToFit(C, F) ==
  \E c \in C, f \in F :
    /\ Running /\ Live(c)
    /\ Finish("shrink_to_fit", c, 0, 0, 0, <<>>, shrink_to_fit(Start(f), c), NoRet, TRUE, FALSE)

Resize(C) ==
  \E c \in C, f \in Faults, n \in 0..MaxCap, hasv \in BOOLEAN, v \in Values :
    /\ Running /\ Live(c)
    /\ hasv \/ v = DefaultValue
    /\ Finish("resize", c, 0, n, IF hasv THEN v ELSE 0, <<>>,
              resize(Start(f), c, n, hasv, v), NoRet, FALSE, FALSE)

AssignFill(C) ==
  \E c \in C, f \in Faults, n \in 0..MaxLen, v \in Values :
    /\ Running /\ Live(c)
    /\ Finish("assign_fill", c, 0, n, v, <<>>, assign_fill(Start(f), c, n, v), NoRet, FALSE, FALSE)

Assign(C) ==
  \E c \in C, f \in Faults, xs \in Lists(MaxLen), ra \in BOOLEAN :
    /\ Running /\ Live(c)
    /\ Finish("assign", c, 0, IF ra THEN 1 ELSE 0, 0, xs,
              assign(Start(f), c, xs, ra), NoRet, FALSE, FALSE)

CopyAssign(P) ==
  \E c \in Vecs, o \in Vecs, f \in Faults :
    /\ Running /\ <<c, o>> \in P /\ Live(c) /\ Live(o)
    /\ Finish("copy_assign", c, o, 0, 0, <<>>, copy_assign(Start(f), c, o, traits), NoRet, FALSE, FALSE)

MoveAssign(P) ==
  \E c \in Vecs, o \in Vecs, f \in CtorFaults :
    /\ Running /\ <<c, o>> \in P /\ Live(c) /\ Live(o)
    /\ Finish("move_assign", c, o, 0, 0, <<>>, move_assign(Start(f), c, o, traits), NoRet,
              traits.pocma \/ traits.always_equal, FALSE)

Swap(P) ==
  \E c \in Vecs, o \in Vecs, f \in CtorFaults :
    /\ Running /\ <<c, o>> \in P /\ Live(c) /\ Live(o)
    /\ Finish("swap", c, o, 0, 0, <<>>, swap(Start(f), c, o, traits), NoRet,
              traits.pocs \/ traits.always_equal, FALSE)

\* Requests no container can hold: one above max_size() that the internal
\* counter still represents, and two that it does not.
BigSizes == {max_size + 1, Wrap + 1, Wrap + static_capacity + 1}

At(C) ==
  \E c \in C, n \in (0..MaxCap) \cup BigSizes :
    /\ Running /\ Live(c)
    /\ LET M == at(Start(0), c, n)
       IN Finish("at", c, 0, n, 0, <<>>, M, M.ret, FALSE, FALSE)

ReserveHuge(C) ==
  \E c \in C, n \in BigSizes :
    /\ Running /\ Live(c)
    /\ Finish("reserve", c, 0, n, 0, <<>>, reserve(Start(0), c, n), NoRet, FALSE, FALSE)

ResizeHuge(C) ==
  \E c \in C, n \in BigSizes, hasv \in BOOLEAN :
    /\ Running /\ Live(c)
    /\ Finish("resize", c, 0, n, IF hasv THEN DefaultValue ELSE 0, <<>>,
              resize(Start(0), c, n, hasv, DefaultValue), NoRet, FALSE, FALSE)

AssignFillHuge(C) ==
  \E c \in C, n \in BigSizes :
    /\ Running /\ Live(c)
    /\ Finish("assign_fill", c, 0, n, DefaultValue, <<>>,
              assign_fill(Start(0), c, n, DefaultValue), NoRet, FALSE, FALSE)

CountCtorHuge(C) ==
  \E c \in C, al \in AllocIds, n \in BigSizes, hasv \in BOOLEAN :
    /\ Running /\ ~Live(c)
    /\ Finish("ctor_count", c, 0, n, IF hasv THEN DefaultValue ELSE 0, <<>>,
              ctor_count(Start(0), c, n, hasv, DefaultValue, al), NoRet, hasv, TRUE)

InsertHuge(C) ==
  \E c \in C, n \in BigSizes :
    \E pos \in 0..vec[c].size_ :
      /\ Running /\ Live(c)
      /\ LET M == insert(Start(0), c, pos, Fill(n, DefaultValue))
         IN Finish("insert", c, 0, pos, 0, Fill(n, DefaultValue), M, M.ret, FALSE, FALSE)

\* -------------------------------------------------------- specification
DefaultTraits ==
  [pocca |-> TRUE, pocma |-> TRUE, pocs |-> TRUE, always_equal |-> TRUE, slack |-> 0,
   arena |-> MaxCap]

Init ==
  /\ trivial \in BOOLEAN
  /\ \E s \in 0..MaxSlack : traits = [DefaultTraits EXCEPT !.slack = s]
  /\ vec = [c \in Vecs |-> DeadVec(c)]
  /\ heap = [b \in Blocks |-> FreeBlock]
  /\ last = Idle

InitPair ==
  /\ trivial \in BOOLEAN
  /\ \E s \in 0..MaxSlack : traits = [DefaultTraits EXCEPT !.slack = s, !.arena = MaxCapPair]
  /\ vec = [c \in Vecs |-> DeadVec(c)]
  /\ heap = [b \in Blocks |-> FreeBlock]
  /\ last = Idle

\* The caller goes on to its next call, unless the program has ended
\* (std::terminate) or has no defined state (undefined behaviour).
Return ==
  /\ last.op # "idle" /\ last.exc # "terminate" /\ ~last.ub
  /\ last' = Idle
  /\ UNCHANGED <<vec, heap, trivial, traits>>

Single == {1}
Self == {<<c, c>> : c \in Single}
Distinct == {p \in Vecs \X Vecs : p[1] # p[2]}

\* One container, every operation (the two-operand ones on itself).
Next ==
  \/ Return
  \/ DefaultCtor(Single) \/ CountCtor(Single) \/ RangeCtor(Single) \/ Dtor(Single)
  \/ EmplaceBack(Single, Faults) \/ PushBackSelf(Single) \/ PopBack(Single)
  \/ Emplace(Single) \/ Insert(Single) \/ Erase(Single) \/ Clear(Single) \/ Reserve(Single, Faults) \/ ShrinkToFit(Single, Faults)
  \/ Resize(Single) \/ AssignFill(Single) \/ Assign(Single)
  \/ CopyAssign(Self) \/ MoveAssign(Self) \/ Swap(Self) \/ At(Single)
  \/ ReserveHuge(Single) \/ ResizeHuge(Single) \/ AssignFillHuge(Single) \/ CountCtorHuge(Single)
  \/ InsertHuge(Single)

Spec == Init /\ [][Next]_vars

\* Two containers: construction from one another, the operations that fill,
\* empty, grow and shrink them, and the two-operand operations.
NextPair ==
  \/ Return
  \/ DefaultCtor(Vecs) \/ CopyCtor \/ MoveCtor \/ Dtor(Vecs)
  \/ EmplaceBack(Vecs, NoFault) \/ PopBack(Vecs) \/ Clear(Vecs)
  \/ Reserve(Vecs, NoFault) \/ ShrinkToFit(Vecs, NoFault)
  \/ CopyAssign(Distinct) \/ MoveAssign(Distinct) \/ Swap(Distinct)

SpecPair == InitPair /\ [][NextPair]_vars

\* One container whose allocator serves blocks large enough for a second
\* growth out of the heap: the operations that fill a container element by
\* element, and the ones that set its capacity.
InitGrow ==
  /\ trivial \in BOOLEAN
  /\ \E s \in 0..MaxSlackGrow :
       traits = [DefaultTraits EXCEPT !.slack = s, !.arena = MaxCapGrow + s]
  /\ vec = [c \in Vecs |-> DeadVec(c)]
  /\ heap = [b \in Blocks |-> FreeBlock]
  /\ last = Idle

NextGrow ==
  \/ Return
  \/ DefaultCtor(Single) \/ RangeCtor(Single) \/ Dtor(Single)
  \/ EmplaceBack(Single, NoFault) \/ PopBack(Single) \/ Clear(Single)
  \/ Reserve(Single, NoFault) \/ ShrinkToFit(Single, NoFault) \/ Assign(Single)

SpecGrow == InitGrow /\ [][NextGrow]_vars

\* Two containers of a trivially copyable value_type whose allocators may
\* differ, under every propagation policy: the operations that build them and the ones that hand storage or
\* an allocator from one container to the other.
InitAlloc ==
  /\ trivial = TRUE
  /\ \E ca \in BOOLEAN, ma \in BOOLEAN, sw \in BOOLEAN :
       traits = [DefaultTraits EXCEPT !.pocca = ca, !.pocma = ma, !.pocs = sw,
                                      !.always_equal = FALSE, !.arena = MaxCapPair]
  /\ vec = [c \in Vecs |-> DeadVec(c)]
  /\ heap = [b \in Blocks |-> FreeBlock]
  /\ last = Idle

NextAlloc ==
  \/ Return
  \/ DefaultCtor(Vecs) \/ MoveCtor \/ Dtor(Vecs)
  \/ EmplaceBackDefault(Vecs) \/ Reserve(Vecs, NoFault)
  \/ CopyAssign(Distinct) \/ MoveAssign(Distinct) \/ Swap(Distinct)

SpecAlloc == InitAlloc /\ [][NextAlloc]_vars

\* ------------------------------------------------------------ properties
\* What a caller observes of container c between two calls.
Capacity(c) == capacity(Start(0), c)

Elements(c) == [i \in 1..vec[c].size_ |-> Load(Start(0), vec[c].data_, i - 1)]

Inline(c) == vec[c].data_ = Inl(c)

\* data_ is the container's own inline buffer, or an allocated block that no
\* other container points to.
OwnsStorage(c) ==
  \/ Inline(c)
  \/ /\ vec[c].data_ \in Blocks
     /\ heap[vec[c].data_].live
     /\ \A d \in Vecs \ {c} : vec[d].alive => vec[d].data_ # vec[c].data_

\* A container as the class means it to be: it owns its storage, which has
\* capacity() slots, of which exactly the first size() hold elements.
Valid(c) ==
  /\ vec[c].alive
  /\ OwnsStorage(c)
  /\ Len(Mem(Start(0), vec[c].data_)) = Capacity(c)
  /\ vec[c].size_ <= Capacity(c)
  /\ \A i \in 1..vec[c].size_ : Elements(c)[i] # U
  /\ trivial \/ \A i \in (vec[c].size_ + 1)..Capacity(c) :
                   Load(Start(0), vec[c].data_, i - 1) = U

\* C1: in every state reached by public operations, every container has
\* 0 <= size() <= capacity(), and capacity() = static_capacity while data_
\* points at the inline buffer.
C1_SizeWithinCapacity ==
  \A c \in Vecs :
    vec[c].alive /\ ~last.ub =>
      /\ 0 <= vec[c].size_ /\ vec[c].size_ <= Capacity(c)
      /\ Inline(c) => Capacity(c) = static_capacity

\* C2: a.swap(b) with a # b, on two well-formed containers in any of the four
\* mode combinations, leaves a with b's former size and elements and b with
\* a's former size and elements.
C2_SwapExchanges ==
  [][\A a \in Vecs, b \in Vecs :
       (last'.op = "swap" /\ last'.exc = "none" /\ last'.c = a /\ last'.d = b
          /\ a # b /\ Valid(a) /\ Valid(b))
       => /\ Elements(a)' = Elements(b)
          /\ Elements(b)' = Elements(a)]_vars

\* C3: erase(first, last) on a well-formed container removes exactly the
\* elements of [first, last), keeps the others in order, leaves capacity()
\* alone and returns first; with first = last it changes nothing.
C3_EraseRemovesRange ==
  [][\A c \in Vecs :
       (last'.op = "erase" /\ last'.exc = "none" /\ last'.c = c /\ Valid(c))
       => /\ Elements(c)' = SubSeq(Elements(c), 1, last'.i)
                              \o SubSeq(Elements(c), last'.j + 1, vec[c].size_)
          /\ Capacity(c)' = Capacity(c)
          /\ last'.ret = <<vec'[c].data_, last'.i>>]_vars

\* C4: insert(pos, xs) / emplace(pos, x) on a well-formed container of size s
\* leaves s + n elements: the former ones before pos, then the new ones, then
\* the former ones from pos on; it returns the position of the first new one.
C4_InsertShiftsTail ==
  [][\A c \in Vecs :
       (last'.op \in {"insert", "emplace"} /\ last'.exc = "none" /\ last'.c = c /\ Valid(c))
       => /\ Elements(c)' = SubSeq(Elements(c), 1, last'.i) \o last'.xs
                              \o SubSeq(Elements(c), last'.i + 1, vec[c].size_)
          /\ last'.ret = <<vec'[c].data_, last'.i>>]_vars

\* C5: push_back(v[i]) on a well-formed container appends the value v[i] had
\* before the call, with or without growth, and never reads the argument
\* after its storage was overwritten or released.
C5_PushBackOwnElement ==
  [][\A c \in Vecs :
       (last'.op = "emplace_back" /\ last'.i >= 0 /\ last'.exc = "none"
          /\ last'.c = c /\ Valid(c))
       => /\ ~last'.ub
          /\ Elements(c)' = Append(Elements(c), Elements(c)[last'.i + 1])]_vars

\* C6: a push_back / emplace_back / insert / emplace / reserve that fails
\* (allocator or element constructor) on a well-formed container leaves
\* size(), capacity() and the elements as they were.
C6_FailureChangesNothing ==
  [][\A c \in Vecs :
       (last'.op \in {"emplace_back", "insert", "emplace", "reserve"}
          /\ last'.exc \in {"bad_alloc", "ctor", "length_error"}
          /\ last'.c = c /\ Valid(c))
       => /\ vec'[c].size_ = vec[c].size_
          /\ Capacity(c)' = Capacity(c)
          /\ Elements(c)' = Elements(c)]_vars

\* C7: a successful push_back(x) / emplace_back(x) on a well-formed container
\* of size s leaves s + 1 elements, the former ones followed by the value x
\* had at the call, and returns a reference to element s.
C7_PushBackAppends ==
  [][\A c \in Vecs :
       (last'.op = "emplace_back" /\ last'.exc = "none" /\ last'.c = c /\ Valid(c))
       => /\ Elements(c)' = Append(Elements(c), last'.j)
          /\ last'.ret = <<vec'[c].data_, vec[c].size_>>]_vars

\* C8: B(std::move(A)) and B = std::move(A) with A # B, on well-formed
\* containers in any mode, leave A empty and inline with capacity()
\* = static_capacity, and B with A's former elements in order.
C8_MoveTransfers ==
  [][\A b \in Vecs, a \in Vecs :
       (last'.op \in {"ctor_move", "move_assign"} /\ last'.exc = "none"
          /\ last'.c = b /\ last'.d = a /\ a # b /\ Valid(a)
          /\ (last'.op = "move_assign" => Valid(b)))
       => /\ vec'[a].size_ = 0
          /\ Inline(a)'
          /\ Capacity(a)' = static_capacity
          /\ Elements(b)' = Elements(a)]_vars

\* C9: no block is deallocated twice, and once every container has been
\* destroyed no block is still allocated.
C9_BlocksFreedOnce ==
  /\ ~last.dfree
  /\ (\A c \in Vecs : ~vec[c].alive) => \A b \in Blocks : ~heap[b].live

\* C10: after every completed operation, self-assignment and self-swap
\* included, data_ of every container is its own inline buffer or an
\* allocated block that no other container points to.
C10_NoDanglingData ==
  \A c \in Vecs :
    vec[c].alive /\ last.exc # "terminate" /\ ~last.ub => OwnsStorage(c)

\* C11: a push_back never lowers capacity(); a push_back that returns makes
\* one allocation and raises capacity() if size() = capacity() before the
\* call, and otherwise makes no allocation and leaves capacity() alone.
C11_PushReallocatesWhenFull ==
  [][\A c \in Vecs :
       (last'.op = "emplace_back" /\ last'.c = c /\ Valid(c))
       => /\ Capacity(c)' >= Capacity(c)
          /\ last'.exc = "none" =>
                IF vec[c].size_ = Capacity(c)
                THEN last'.na = 1 /\ Capacity(c)' > Capacity(c)
                ELSE last'.na = 0 /\ Capacity(c)' = Capacity(c)]_vars

\* C12: a push_back that returns makes no allocator call and keeps the
\* container inline while it is inline with size() < static_capacity; a
\* push_back that allocates makes one allocation, and one deallocation if
\* the container was in heap mode, none if it was inline.
C12_PushAllocatorCalls ==
  [][\A c \in Vecs :
       (last'.op = "emplace_back" /\ last'.exc = "none" /\ last'.c = c /\ Valid(c))
       => /\ (Inline(c) /\ vec[c].size_ < static_capacity)
               => /\ last'.na = 0 /\ last'.nd = 0
                  /\ Inline(c)' /\ Capacity(c)' = static_capacity
          /\ last'.na \in {0, 1}
          /\ last'.nd = (IF last'.na = 1 /\ ~Inline(c) THEN 1 ELSE 0)
          /\ Capacity(c)' # Capacity(c) => last'.na = 1]_vars

\* A push_back has just moved a heap-mode container to a larger block.
C12_Witness ==
  /\ last.op = "emplace_back" /\ last.exc = "none" /\ ~last.ub
  /\ last.na = 1 /\ last.nd = 1
  /\ Capacity(1) = MaxCapGrow

\* The count a push_back asks for when size() = capacity() = cap, and the
\* capacity it leaves when the allocator hands out extra more than asked.
GrowRequest(cap) == Min(cap + (cap \div 2) + 1, max_size)

GrowCap(cap, extra) == IF GrowRequest(cap) > cap THEN GrowRequest(cap) + extra ELSE cap

\* Capacity after n push_back calls on a container of capacity cap and size
\* sz, and the number of allocations they make.
RECURSIVE PushCap(_, _, _, _)
PushCap(cap, sz, n, extra) ==
  IF n = 0 THEN cap
  ELSE PushCap(IF sz >= cap THEN GrowCap(cap, extra) ELSE cap, sz + 1, n - 1, extra)

RECURSIVE PushAllocs(_, _, _, _)
PushAllocs(cap, sz, n, extra) ==
  IF n = 0 THEN 0
  ELSE (IF sz >= cap /\ GrowCap(cap, extra) # cap THEN 1 ELSE 0)
         + PushAllocs(IF sz >= cap THEN GrowCap(cap, extra) ELSE cap, sz + 1, n - 1, extra)

\* The growth rule for an allocator that hands out extra slots more than it
\* is asked for.
GrowthRule(extra) ==
  \A c \in Vecs :
       /\ (last'.op = "emplace_back" /\ last'.exc = "none" /\ last'.c = c /\ Valid(c)
              /\ vec[c].size_ = Capacity(c))
           => Capacity(c)' = GrowCap(Capacity(c), extra)
       /\ (last'.op = "assign" /\ last'.i = 0 /\ last'.exc = "none" /\ last'.c = c /\ Valid(c))
           => /\ Capacity(c)' = PushCap(Capacity(c), 0, Len(last'.xs), extra)
              /\ last'.na = PushAllocs(Capacity(c), 0, Len(last'.xs), extra)
       /\ (last'.op = "ctor_range" /\ last'.i = 0 /\ last'.exc = "none" /\ last'.c = c)
           => /\ Capacity(c)' = PushCap(static_capacity, 0, Len(last'.xs), extra)
              /\ last'.na = PushAllocs(static_capacity, 0, Len(last'.xs), extra)
              /\ last'.nd = Max(last'.na - 1, 0)

C14_Reserve ==
  [][\A c \in Vecs :
       (last'.op = "reserve" /\ last'.exc = "none" /\ last'.c = c /\ Valid(c))
       => /\ vec'[c].size_ = vec[c].size_
          /\ Elements(c)' = Elements(c)
          /\ IF last'.i <= Capacity(c)
             THEN /\ last'.na = 0 /\ last'.nd = 0
                  /\ Capacity(c)' = Capacity(c)
                  /\ c \in last'.kept
             ELSE /\ last'.na = 1
                  /\ last'.nd = (IF Inline(c) THEN 0 ELSE 1)
                  /\ Capacity(c)' >= last'.i]_vars

\* C15: a shrink_to_fit that returns leaves size() and the elements
\* unchanged; the container ends inline when size() <= static_capacity and
\* with capacity() = size() otherwise; on a container that is already inline,
\* or in heap mode with capacity() = size() > static_capacity, it makes no
\* allocator call and changes nothing.
C15_ShrinkToFit ==
  [][\A c \in Vecs :
       (last'.op = "shrink_to_fit" /\ last'.exc = "none" /\ last'.c = c /\ Valid(c))
       => /\ vec'[c].size_ = vec[c].size_
          /\ Elements(c)' = Elements(c)
          /\ IF vec[c].size_ <= static_capacity
             THEN Inline(c)'
             ELSE Capacity(c)' = vec[c].size_
          /\ (Inline(c) \/ (Capacity(c) = vec[c].size_ /\ vec[c].size_ > static_capacity))
               => /\ last'.na = 0 /\ last'.nd = 0
                  /\ Capacity(c)' = Capacity(c)
                  /\ c \in last'.kept]_vars

\* C16: after a resize(n) or resize(n, value) that returns, size() = n and
\* the first min(old size, n) elements are unchanged; elements added by
\* resize(n, value) equal value; with n <= old size capacity() and data() are
\* unchanged and no allocator call is made; with n > capacity() one
\* allocation is made and capacity() >= n afterwards.
C16_Resize ==
  [][\A c \in Vecs :
       (last'.op = "resize" /\ last'.exc = "none" /\ last'.c = c /\ Valid(c))
       => /\ vec'[c].size_ = last'.i
          /\ \A k \in 1..Min(vec[c].size_, last'.i) :
               k <= vec'[c].size_ /\ Elements(c)'[k] = Elements(c)[k]
          /\ last'.j # 0 =>
               \A k \in (vec[c].size_ + 1)..vec'[c].size_ : Elements(c)'[k] = last'.j
          /\ last'.i <= vec[c].size_ =>
               /\ last'.na = 0 /\ last'.nd = 0
               /\ Capacity(c)' = Capacity(c)
               /\ c \in last'.kept
          /\ last'.i > Capacity(c) =>
               /\ last'.na = 1
               /\ Capacity(c)' >= last'.i]_vars

\* The number of elements an assignment asks for, and their values.
AssignCount(r) ==
  IF r.op = "assign" THEN Len(r.xs) ELSE IF r.op = "assign_fill" THEN r.i ELSE vec[r.d].size_

AssignValues(r) ==
  IF r.op = "assign" THEN r.xs
  ELSE IF r.op = "assign_fill" THEN Fill(r.i, r.j) ELSE Elements(r.d)

\* C17: an assign or copy assignment to n elements that returns makes no
\* allocator call and keeps capacity() and data() when n <= capacity();
\* otherwise it makes one allocation and deallocates the previous block once
\* if the container was in heap mode; afterwards the container holds the n
\* assigned elements, and the source of a copy assignment is unchanged.
C17_Assign ==
  [][\A c \in Vecs :
       (/\ last'.op \in {"assign", "assign_fill", "copy_assign"}
        /\ last'.exc = "none" /\ last'.c = c /\ Valid(c)
        /\ last'.op = "copy_assign" => Valid(last'.d))
       => /\ IF AssignCount(last') <= Capacity(c)
             THEN /\ last'.na = 0 /\ last'.nd = 0
                  /\ Capacity(c)' = Capacity(c)
                  /\ c \in last'.kept
             ELSE /\ last'.na = 1
                  /\ last'.nd = (IF Inline(c) THEN 0 ELSE 1)
          /\ vec'[c].size_ = AssignCount(last')
          /\ Elements(c)' = AssignValues(last')
          /\ \A d \in Vecs :
               (last'.op = "copy_assign" /\ last'.d = d)
               => vec'[d].size_ = vec[d].size_ /\ Elements(d)' = Elements(d)]_vars

C19_At ==
  [][\A c \in Vecs :
       (last'.op = "at" /\ last'.c = c /\ Valid(c))
       => /\ IF last'.i < vec[c].size_
             THEN /\ last'.exc = "none"
                  /\ last'.ret = <<vec'[c].data_, last'.i>>
             ELSE /\ last'.exc = "out_of_range"
                  /\ last'.ret = NoRet
          /\ vec' = vec /\ heap' = heap
          /\ last'.na = 0 /\ last'.nd = 0 /\ ~last'.ub]_vars

\* at(size()) has just failed on a container that holds elements.
C19_Witness ==
  /\ last.op = "at" /\ last.exc = "out_of_range"
  /\ vec[1].alive /\ vec[1].size_ > 0
  /\ last.i = vec[1].size_

\* The number of elements asked for by a call that takes a count or a range.
Requested(r) ==
  IF r.op \in {"reserve", "resize", "assign_fill", "ctor_count"} THEN r.i
  ELSE IF r.op = "insert" THEN Len(r.xs) ELSE 0

\* C20: a reserve, resize, assign(n, v), count constructor or range insert
\* that asks for more than max_size() elements fails with a length error,
\* makes no allocator call and leaves every container and the heap as they
\* were.
C20_LengthError ==
  [][Requested(last') > max_size
       => /\ last'.exc = "length_error"
          /\ last'.na = 0 /\ last'.nd = 0 /\ ~last'.ub
          /\ vec' = vec /\ heap' = heap]_vars

\* The number of elements a call adds to the container.
Added(r) ==
  IF r.op \in {"emplace_back", "emplace"} THEN 1
  ELSE IF r.op = "insert" THEN Len(r.xs) ELSE 0

\* C21: the capacity left by the growth of emplace_back, emplace and insert
\* never exceeds what the allocator returns for max_size() elements, and a
\* call whose required size, size() plus the number of added elements,
\* exceeds max_size() fails with a length error.
C21_GrowthWithinMaxSize ==
  [][\A c \in Vecs :
       (last'.op \in {"emplace_back", "emplace", "insert"} /\ last'.c = c /\ Valid(c))
       => /\ Capacity(c)' > Capacity(c) => Capacity(c)' <= max_size + traits.slack
          /\ vec[c].size_ + Added(last') > max_size => last'.exc = "length_error"]_vars

\* C22: an operation that ends with the allocator's failure leaves the
\* container with the data pointer, size, capacity and elements it had, and
\* deallocates nothing; a constructor that ends with it leaves the heap as it
\* was; and the failure is never turned into the end of the program (for a
\* trivially copyable value_type, whose element operations cannot throw,
\* shrink_to_fit and the copy constructor can only fail in the allocator).
C22_AllocatorFailure ==
  [][/\ \A c \in Vecs :
          (last'.exc = "bad_alloc" /\ last'.c = c /\ Valid(c))
          => /\ c \in last'.kept
             /\ vec'[c].size_ = vec[c].size_
             /\ Capacity(c)' = Capacity(c)
             /\ Elements(c)' = Elements(c)
             /\ last'.nd = 0
     /\ (last'.exc = "bad_alloc" /\ last'.op \in {"ctor_count", "ctor_range", "ctor_copy"})
          => heap' = heap
     /\ (trivial /\ last'.op \in {"shrink_to_fit", "ctor_copy"})
          => last'.exc # "terminate"]_vars

\* C23: in every state between two calls of a program without undefined
\* behaviour, the heap block a container's data_ points to was allocated by
\* an allocator equal to the container's current allocator.
C23_BlockFromOwnAllocator ==
  (~last.ub /\ last.exc # "terminate")
  => \A c \in Vecs :
       (vec[c].alive /\ vec[c].data_ \in Blocks /\ heap[vec[c].data_].live)
       => heap[vec[c].data_].by = vec[c].alloc

\* C24: a swap of two different containers that returns exchanges their
\* allocators when propagate_on_container_swap is true, in every combination
\* of inline and heap mode, and leaves both allocators alone when it is false.
C24_SwapAllocators ==
  [][\A c \in Vecs, o \in Vecs :
       (/\ last'.op = "swap" /\ last'.c = c /\ last'.d = o /\ c # o
        /\ last'.exc = "none")
       => IF traits.pocs
          THEN vec'[c].alloc = vec[o].alloc /\ vec'[o].alloc = vec[c].alloc
          ELSE vec'[c].alloc = vec[c].alloc /\ vec'[o].alloc = vec[o].alloc]_vars

\* C25: with propagate_on_container_copy_assignment and unequal allocators,
\* a copy assignment that returns leaves the target with the source's
\* allocator, whatever the modes of the two containers, and the target's
\* storage is then its inline buffer or a block of that allocator.
C25_CopyAssignTakesAllocator ==
  [][\A c \in Vecs, o \in Vecs :
       (/\ last'.op = "copy_assign" /\ last'.c = c /\ last'.d = o /\ c # o
        /\ last'.exc = "none"
        /\ traits.pocca /\ vec[c].alloc # vec[o].alloc
        /\ Valid(c) /\ Valid(o))
       => /\ vec'[c].alloc = vec[o].alloc
          /\ Inline(c)' \/ heap'[vec'[c].data_].by = vec[o].alloc]_vars

\* What a move construction or move assignment of o into c does with the
\* allocator; sw tells whether a move assignment whose allocator propagates
\* and differs from the source's is taken to release the target's block.
MoveCalls(c, o, sw) ==
  LET held == last'.op = "move_assign" /\ ~Inline(c)
      switch == sw /\ last'.op = "move_assign" /\ traits.pocma /\ vec[c].alloc # vec[o].alloc
  IN /\ last'.na = 0
     /\ last'.nd = (IF held /\ (~Inline(o) \/ switch) THEN 1 ELSE 0)
     /\ IF ~Inline(o)
        THEN ~Inline(c)' /\ Capacity(c)' = Capacity(o)
        ELSE IF held /\ ~switch
        THEN ~Inline(c)' /\ Capacity(c)' = Capacity(c) /\ c \in last'.kept
        ELSE Inline(c)'

MoveCase(c, o) ==
  /\ last'.op \in {"ctor_move", "move_assign"} /\ last'.c = c /\ last'.d = o /\ c # o
  /\ last'.exc = "none"
  /\ Valid(o)
  /\ last'.op = "move_assign" => Valid(c)

C27_CopyConstruction ==
  [][\A c \in Vecs : \A o \in Vecs \ {c} :
       /\ (/\ last'.op = "ctor_copy" /\ last'.c = c /\ last'.d = o
           /\ last'.exc = "none" /\ Valid(o))
          => /\ vec'[c].alive
             /\ vec'[c].size_ = vec[o].size_
             /\ Elements(c)' = Elements(o)
             /\ vec'[c].data_ # vec'[o].data_
             /\ o \in last'.kept
             /\ vec'[o].size_ = vec[o].size_
             /\ Elements(o)' = Elements(o)
             /\ last'.nd = 0
             /\ IF vec[o].size_ <= static_capacity
                THEN Inline(c)' /\ last'.na = 0
                ELSE ~Inline(c)' /\ last'.na = 1
       /\ (/\ last'.op # "idle" /\ last'.c = c /\ last'.d = 0
           /\ Valid(c) /\ Valid(o))
          => /\ vec'[o].alive
             /\ o \in last'.kept
             /\ vec'[o].size_ = vec[o].size_
             /\ Elements(o)' = Elements(o)]_vars

\* A copy construction from a heap-mode original has just returned.
C27_Witness ==
  /\ last.op = "ctor_copy" /\ last.exc = "none" /\ ~last.ub
  /\ last.na = 1
  /\ vec[1].alive /\ vec[2].alive
  /\ vec[1].size_ > static_capacity
  /\ Elements(1) = Elements(2)

\* The number of elements a constructor is given, and their values.
CtorCount(r) == IF r.op = "ctor_range" THEN Len(r.xs) ELSE r.i

CtorValues(r) == IF r.op = "ctor_range" THEN r.xs ELSE Fill(r.i, r.j)

\* C28: a construction from an initializer list, a random-access range or a
\* count and a value that returns yields a container that holds exactly the
\* n given elements in order, inline without an allocation when
\* n <= static_capacity and in heap mode after one allocation with
\* capacity() >= n otherwise.
C28_ConstructAndReadBack ==
  [][\A c \in Vecs :
       (/\ \/ last'.op = "ctor_range" /\ last'.i = 1
           \/ last'.op = "ctor_count" /\ last'.j # 0
        /\ last'.c = c /\ last'.exc = "none")
       => /\ vec'[c].alive
          /\ vec'[c].size_ = CtorCount(last')
          /\ Elements(c)' = CtorValues(last')
          /\ last'.nd = 0
          /\ IF CtorCount(last') <= static_capacity
             THEN Inline(c)' /\ last'.na = 0
             ELSE ~Inline(c)' /\ last'.na = 1 /\ Capacity(c)' >= CtorCount(last')]_vars

\* C29: in every state between two calls of a program without undefined
\* behaviour, failed calls included, the slots of a container's storage that
\* hold a constructed element (of a value_type with a constructor and a
\* destructor) are exactly those at the indices below size().
C29_LiveElements ==
  (~trivial /\ ~last.ub /\ last.exc # "terminate")
  => \A c \in Vecs :
       vec[c].alive
       => \A i \in 0..(Len(Mem(Start(0), vec[c].data_)) - 1) :
            (Load(Start(0), vec[c].data_, i) # U) <=> (i < vec[c].size_)

\* ---- C30
\* The inputs of a range primitive taken from a reachable state: n live
\* source elements at [s, s + n) and n unconstructed destination slots at
\* [d, d + n) of the same storage r, the two ranges apart.
RangeInput(r, s, d, n) ==
  /\ n >= 1 /\ (s + n <= d \/ d + n <= s)
  /\ \A i \in 0..(n - 1) :
       /\ InBounds(Start(0), r, s + i) /\ Load(Start(0), r, s + i) # U
       /\ InBounds(Start(0), r, d + i) /\ Load(Start(0), r, d + i) = U

\* What a range primitive has to leave behind when an element construction
\* failed: the exception is on its way, no slot that held no element was
\* destroyed, none of the n destination slots holds an element, and the source
\* elements at the offsets kept hold their values.
RangeFailed(M, r, s, d, n, kept) ==
  /\ M.exc = "ctor" /\ ~M.ub
  /\ \A i \in 0..(n - 1) : Load(M, r, d + i) = U
  /\ \A i \in kept : Load(M, r, s + i) = Load(Start(0), r, s + i)

\* C30: when the construction of the k-th destination element fails in
\* copy_data, move_data, move_data_backwards or fill_data over n elements,
\* exactly the destination elements constructed so far by the call are
\* destroyed (none is left, and no unconstructed slot is destroyed) before
\* the failure propagates, and the source elements not yet moved are live.
C30_RangeFailure ==
  ~trivial
  => \A c \in Vecs : \A s \in 0..(MaxCap - 1), d \in 0..(MaxCap - 1), n \in 1..MaxCap :
       (vec[c].alive /\ RangeInput(vec[c].data_, s, d, n))
       => \A k \in 1..n :
            /\ RangeFailed(copy_data(Start(k), vec[c].data_, d, vec[c].data_, s, n),
                           vec[c].data_, s, d, n, 0..(n - 1))
            /\ RangeFailed(move_data(Start(k), vec[c].data_, d, vec[c].data_, s, n),
                           vec[c].data_, s, d, n, (k - 1)..(n - 1))
            /\ RangeFailed(move_data_backwards(Start(k), vec[c].data_, d + n,
                                               vec[c].data_, s + n, n),
                           vec[c].data_, s, d, n, 0..(n - k))
            /\ RangeFailed(fill_data(Start(k), vec[c].data_, d, n, TRUE, 1),
                           vec[c].data_, s, d, n, 0..(n - 1))

\* ---- C31
\* C31: when an element copy fails in assign(...) or in copy assignment and
\* the capacity the container has is enough for the new elements, the
\* container keeps its former size and its former elements, all live.
C31_AssignInPlaceFailure ==
  [][\A c \in Vecs :
       (last'.op \in {"assign_fill", "assign", "copy_assign"} /\ last'.exc = "ctor"
          /\ last'.c = c /\ Valid(c) /\ AssignCount(last') <= Capacity(c))
       => /\ vec'[c].size_ = vec[c].size_
          /\ Elements(c)' = Elements(c)]_vars

\* ---- C32
\* What slot i of the storage of container c holds.
Slot(c, i) == Load(Start(0), vec[c].data_, i)

\* C32: a shift of the tail inside the same storage - by insert or emplace
\* with room for the new elements, toward higher indexes, and by erase, toward
\* lower indexes - reads each of the end - pos (insert) or end - last (erase)
\* tail elements before its slot is overwritten and never writes a slot that
\* holds a tail element not moved yet: the call reads no slot without an
\* element, and every tail element arrives at its shifted slot.
C32_TailShift ==
  [][\A c \in Vecs : \A i \in 0..(MaxCap - 1), k \in 0..(MaxCap - 1) :
       (last'.exc = "none" /\ last'.c = c /\ Valid(c) /\ i < vec[c].size_)
       => /\ (last'.op \in {"insert", "emplace"}
                /\ vec[c].size_ + Len(last'.xs) <= Capacity(c)
                /\ last'.i <= i /\ k = i + Len(last'.xs))
             => ~last'.ub /\ Slot(c, k)' = Slot(c, i)
          /\ (last'.op = "erase" /\ last'.j <= i /\ k = i - (last'.j - last'.i))
             => ~last'.ub /\ Slot(c, k)' = Slot(c, i)]_vars

\* ---- C33
\* The start of an operation for a value_type that takes the raw-memory path
\* (t = TRUE) or the element-wise path (t = FALSE), on the same objects.
Path(t) == Machine(vec, heap, t, 0, traits)

\* What a caller observes of container c when the operation is over.
Observed(M, c) ==
  [exc |-> M.exc, ub |-> M.ub, size |-> M.vec[c].size_, cap |-> capacity(M, c),
   inline |-> ~is_heap_allocated(M, c),
   elems |-> [i \in 1..M.vec[c].size_ |-> Load(M, M.vec[c].data_, i - 1)]]

SamePaths(A, B, c) == Observed(A, c) = Observed(B, c)

\* C33: the same operation with the same values, applied to the same
\* well-formed container, leaves the same size, capacity, mode and elements
\* whether the value_type takes the memcpy/memmove path or the element-wise
\* path - after insert and emplace with a tail shift in place in particular.
C33_PathsAgree ==
  \A c \in Vecs :
    (last.op = "idle" /\ ~trivial /\ Valid(c))
    => /\ \A v \in Values :
            SamePaths(emplace_back(Path(TRUE), c, [k |-> "val", v |-> v]),
                      emplace_back(Path(FALSE), c, [k |-> "val", v |-> v]), c)
       /\ vec[c].size_ > 0 => SamePaths(pop_back(Path(TRUE), c), pop_back(Path(FALSE), c), c)
       /\ \A pos \in 0..vec[c].size_ :
            /\ \A v \in Values :
                 SamePaths(emplace(Path(TRUE), c, pos, v), emplace(Path(FALSE), c, pos, v), c)
            /\ \A xs \in Lists(MaxIns) :
                 SamePaths(insert(Path(TRUE), c, pos, xs), insert(Path(FALSE), c, pos, xs), c)
            /\ \A lst \in pos..vec[c].size_ :
                 SamePaths(erase(Path(TRUE), c, pos, lst), erase(Path(FALSE), c, pos, lst), c)
       /\ SamePaths(clear(Path(TRUE), c), clear(Path(FALSE), c), c)
       /\ SamePaths(shrink_to_fit(Path(TRUE), c), shrink_to_fit(Path(FALSE), c), c)
       /\ \A n \in 0..MaxCap :
            /\ SamePaths(reserve(Path(TRUE), c, n), reserve(Path(FALSE), c, n), c)
            /\ \A v \in Values :
                 /\ SamePaths(resize(Path(TRUE), c, n, TRUE, v),
                              resize(Path(FALSE), c, n, TRUE, v), c)
                 /\ SamePaths(assign_fill(Path(TRUE), c, n, v),
                              assign_fill(Path(FALSE), c, n, v), c)
       /\ \A xs \in Lists(MaxLen), ra \in BOOLEAN :
            SamePaths(assign(Path(TRUE), c, xs, ra), assign(Path(FALSE), c, xs, ra), c)

\* ---- C34
\* The number of elements the call recorded in r needs room for.
Required(r) ==
  IF r.op \in {"emplace_back", "emplace"} THEN vec[r.c].size_ + 1
  ELSE IF r.op = "insert" THEN vec[r.c].size_ + Len(r.xs)
  ELSE IF r.op \in {"reserve", "resize", "assign_fill"} THEN r.i
  ELSE IF r.op = "assign" THEN Len(r.xs)
  ELSE IF r.op = "copy_assign" THEN vec[r.d].size_
  ELSE 0

\* C34: a container leaves its inline buffer only in a call that needs room
\* for more than static_capacity elements, or in a move assignment or swap
\* that hands it the other container's heap block; right after it has left
\* the inline buffer its capacity() is at least static_capacity, and no call,
\* shrink_to_fit included, takes an inline container to a smaller heap block.
C34_LeavesInlineOnlyToGrow ==
  [][\A c \in Vecs :
       (last'.op # "idle" /\ last'.exc # "terminate" /\ Valid(c) /\ Inline(c)
          /\ vec'[c].alive /\ ~Inline(c)')
       => /\ \/ last'.c = c /\ Required(last') > static_capacity
             \/ /\ last'.op \in {"move_assign", "swap"}
                /\ \E o \in Vecs \ {c} : {c, o} = {last'.c, last'.d} /\ ~Inline(o)
          /\ Capacity(c)' >= static_capacity]_vars

\* ---- C35
\* C35: with an allocator that returns exactly the requested count, an insert
\* of n elements that does not fit the capacity ends with capacity() equal to
\* the old size plus n, and an emplace(pos) that does not fit ends with
\* capacity() == min(max(s + s/2 + 1, s + 1), max_size()) for the old size s.
C35_ExactFitAndGrowthFactor ==
  [][\A c \in Vecs :
       (traits.slack = 0 /\ last'.exc = "none" /\ last'.c = c /\ Valid(c))
       => /\ (last'.op = "insert" /\ vec[c].size_ + Len(last'.xs) > Capacity(c))
             => Capacity(c)' = vec[c].size_ + Len(last'.xs)
          /\ (last'.op = "emplace" /\ vec[c].size_ + 1 > Capacity(c))
             => Capacity(c)' = Min(Max(vec[c].size_ + (vec[c].size_ \div 2) + 1,
                                       vec[c].size_ + 1), max_size)]_vars

\* ---- C36
\* C36: data(), and with it every iterator, pointer and reference to an
\* element, has the value it had before the call after push_back /
\* emplace_back with size() < capacity(), pop_back, clear, resize(n) and
\* reserve(n) with n <= capacity(), and an assign whose elements fit the
\* capacity.
C36_DataPointerStable ==
  [][\A c \in Vecs :
       (last'.c = c /\ Valid(c) /\ last'.exc # "terminate"
          /\ \/ last'.op = "emplace_back" /\ vec[c].size_ < Capacity(c)
             \/ last'.op \in {"pop_back", "clear"}
             \/ last'.op \in {"resize", "reserve"} /\ last'.i <= Capacity(c)
             \/ last'.op \in {"assign_fill", "assign"} /\ AssignCount(last') <= Capacity(c))
       => /\ c \in last'.kept
          /\ vec'[c].alive /\ Inline(c)' = Inline(c)]_vars

\* An emplace_back into spare capacity of a heap block has returned.
C36_Witness ==
  /\ last.op = "emplace_back" /\ last.exc = "none" /\ last.na = 0
  /\ last.c \in last.kept
  /\ ~Inline(last.c) /\ vec[last.c].size_ >= 2

\* ---- C37
\* An allocated block that no container points to and that holds elements.
Orphaned(b) ==
  /\ heap[b].live
  /\ \A c \in Vecs : ~(vec[c].alive /\ vec[c].data_ = b)
  /\ \E i \in 1..Len(heap[b].slots) : heap[b].slots[i] # U

\* C37: every element that was constructed is destroyed exactly once: no call,
\* the destructor of the container included, releases, reuses or abandons the
\* storage of an element that is still alive (as when assign, copy assignment
\* or a count / range assign moves to a new block), and no destructor runs on
\* a slot whose element was destroyed already.
C37_DestroyedExactlyOnce ==
  (~trivial /\ last.exc # "terminate")
  => /\ ~last.lost
     /\ ~last.twice
     /\ \A b \in Blocks : ~Orphaned(b)

\* ---- C38
\* C38: when move construction or move assignment moves the elements of an
\* inline-mode source into the storage the target has, the capacity of the
\* target is at least the size of the source - whatever state the target is
\* in, a heap block left by shrink_to_fit included - and no element is
\* written past it.
C38_InlineSourceFitsTarget ==
  [][\A c \in Vecs : \A o \in Vecs \ {c} :
       (last'.op \in {"ctor_move", "move_assign"} /\ last'.c = c /\ last'.d = o
          /\ last'.exc # "terminate" /\ Valid(o) /\ Inline(o)
          /\ (last'.op = "move_assign" => Valid(c)))
       => /\ last'.op = "move_assign" => Capacity(c) >= vec[o].size_
          /\ ~last'.ub
          /\ vec'[c].size_ <= Capacity(c)']_vars

\* ---- C39
\* The capacity counter of a heap-mode container c is the element count of
\* the allocated block data_ points to, and the inline buffer it shares its
\* bytes with holds no element any more.
CounterMatchesBlock(c) ==
  /\ vec[c].data_ \in Blocks
  /\ heap[vec[c].data_].live
  /\ vec[c].capacity_ = Len(heap[vec[c].data_].slots)
  /\ trivial \/ \A i \in 1..static_capacity : vec[c].inline_data_[i] = U

\* C39: in heap mode capacity_, which shares its bytes with the inline buffer,
\* always is the element count of the block data_ points to: it is written
\* only once the inline elements have been moved out and read before the
\* inline bytes are overwritten; every deallocate(p, n) passes the n block p
\* was allocated with; and no inline buffer is ever passed to the allocator.
C39_CapacityCounter ==
  /\ (~last.ub /\ last.exc # "terminate")
     => \A c \in Vecs : (vec[c].alive /\ ~Inline(c)) => CounterMatchesBlock(c)
  /\ ~last.badn
  /\ ~last.dinl

====
